---------------------------- MODULE Spec2Model ----------------------------
(***************************************************************************)
(* Model of doctl's domain / domain-record command handlers                *)
(* (commands/domains.go) and of the generated RegionsService mock          *)
(* (do/mocks/RegionsService.go).                                           *)
(*                                                                         *)
(* One run of the CLI is one command: Init draws the command line (the     *)
(* handler selected, its positional arguments and flag values), the single *)
(* step runs the selected handler to completion against an environment     *)
(* (flag store, DomainsService, Displayer) whose answers are drawn         *)
(* nondeterministically.  What the handler did is kept as a log of the     *)
(* observable events in the order the code performs them: flag reads,      *)
(* service calls with their payload and outcome, Display calls.            *)
(*                                                                         *)
(* Go strings are sequences of characters.  strconv.Atoi is modelled       *)
(* without its range check: the argument strings are at most MaxStrLen + 1 *)
(* characters long, far below the 19 digits an int64 overflow needs.       *)
(***************************************************************************)
EXTENDS Integers, Sequences, FiniteSets, TLC

VARIABLES
    cmd,        \* the handler the command line selects (c.NS)
    args,       \* c.Args: positional arguments
    flags,      \* the flag values of the command line
    mock,       \* return values configured on the RegionsService mock
    pc,         \* "start" before the handler ran, "done" after
    log,        \* events of the run, in order
    err,        \* the error the handler returned (nil on success)
    out,        \* the pair returned by RegionsService.List
    store,      \* domains held by a DomainsService that stores what Create receives
    supplied    \* history: the (name, ip) given on the command line of each stored create

vars == <<cmd, args, flags, mock, pc, log, err, out, store, supplied>>

---------------------------------------------------------------------------
(* Bounds *)

MaxStrLen == 2      \* length of a positional argument
MaxIds == 2         \* record ids given to "records delete"
MaxFixedArgs == 2   \* positional arguments tried on the single-argument commands
MaxList == 2        \* entities returned by List / Records

---------------------------------------------------------------------------
(* Strings *)

Alphabet == {"7", "-"}

StringsUpTo(n) == UNION {[1..k -> Alphabet] : k \in 0..n}

Strings == StringsUpTo(MaxStrLen)

ShortStrings == StringsUpTo(1)

SeqsUpTo(S, n) == UNION {[1..k -> S] : k \in 0..n}

Digit == [ch \in {"0", "1", "2", "3", "4", "5", "6", "7", "8", "9"} |->
            CASE ch = "0" -> 0 [] ch = "1" -> 1 [] ch = "2" -> 2 [] ch = "3" -> 3
              [] ch = "4" -> 4 [] ch = "5" -> 5 [] ch = "6" -> 6 [] ch = "7" -> 7
              [] ch = "8" -> 8 [] ch = "9" -> 9]

RECURSIVE DecimalValue(_)
DecimalValue(s) ==
    IF Len(s) = 0 THEN 0
    ELSE 10 * DecimalValue(SubSeq(s, 1, Len(s) - 1)) + Digit[s[Len(s)]]

\* strconv.Atoi: an optional sign followed by one or more decimal digits.
Atoi(s) ==
    IF Len(s) = 0 THEN [ok |-> FALSE, v |-> 0]
    ELSE LET signed == s[1] \in {"+", "-"}
             body == IF signed THEN Tail(s) ELSE s
         IN IF Len(body) = 0 \/ \E i \in 1..Len(body) : body[i] \notin DOMAIN Digit
            THEN [ok |-> FALSE, v |-> 0]
            ELSE [ok |-> TRUE,
                  v |-> IF s[1] = "-" THEN 0 - DecimalValue(body) ELSE DecimalValue(body)]

---------------------------------------------------------------------------
(* Errors *)

Error(kind, msg, arg) == [kind |-> kind, msg |-> msg, arg |-> arg]

nil == Error("nil", "", <<>>)

NewMissingArgsErr(ns) == Error("MissingArguments", ns, <<>>)

InvalidInput(msg, arg) == Error("InvalidInput", msg, arg)

FlagError(key) == Error("Flag", key, <<>>)

ServiceErrors == {Error("Service", "transport", <<>>), Error("Service", "not found", <<>>)}

DisplayErrors == {Error("Display", "write", <<>>)}

---------------------------------------------------------------------------
(* Events and results *)

FlagEv(key) == [op |-> "Flag", svc |-> FALSE, arg |-> <<key>>, err |-> nil, val |-> <<>>]

CallEv(name, a, o) == [op |-> name, svc |-> TRUE, arg |-> a, err |-> o.err, val |-> o.val]

DisplayEv(items) == [op |-> "Display", svc |-> FALSE, arg |-> items, err |-> nil, val |-> <<>>]

Result(l, e) == [log |-> l, err |-> e]

---------------------------------------------------------------------------
(* Environment: flag store, DomainsService, Displayer *)

\* c.Doit.GetString / c.Doit.GetInt, called for keys in order until one fails.
\* failAt is the ordinal of the read the flag store rejects (0: none).
GetFlags(c, keys, failAt) ==
    LET failed == failAt \in 1..Len(keys)
        n == IF failed THEN failAt ELSE Len(keys)
    IN  [log |-> [i \in 1..n |-> FlagEv(keys[i])],
         err |-> IF failed THEN FlagError(keys[failAt]) ELSE nil]

Domain(name, ip) == [Name |-> name, IPAddress |-> ip]

StoredDomains(st, name) == {d \in st : d.Name = name}

\* A DomainsService that stores what Create receives and answers Get from it.
StoreInvoke(st, name, a) ==
    CASE name = "Create" ->
           [err |-> nil, val |-> Domain(a[1].Name, a[1].IPAddress)]
      [] name = "Get" ->
           IF StoredDomains(st, a[1]) = {}
           THEN [err |-> Error("Service", "not found", <<>>), val |-> <<>>]
           ELSE [err |-> nil, val |-> CHOOSE d \in StoredDomains(st, a[1]) : TRUE]
      [] OTHER -> [err |-> Error("Service", "unsupported", <<>>), val |-> <<>>]

\* The k-th call made on the DomainsService ds.  A mock with canned answers
\* returns script[k] (its last answer once the script is used up).
Invoke(ds, k, name, a) ==
    IF ds.mode = "canned"
    THEN ds.script[IF k <= Len(ds.script) THEN k ELSE Len(ds.script)]
    ELSE StoreInvoke(ds.store, name, a)

Canned(script) == [mode |-> "canned", script |-> script, store |-> {}]

Storing(st) == [mode |-> "storing", script |-> <<>>, store |-> st]

\* c.Display(item): hands the items to the Displayer and returns its error.
Display(l, items, dispErr) == Result(Append(l, DisplayEv(items)), dispErr)

---------------------------------------------------------------------------
(* Command handlers *)

DomainCreateRequest(domainName, ipAddress) ==
    [Name |-> domainName, IPAddress |-> ipAddress]

RunDomainCreate(c, failAt, ds, dispErr) ==
    IF Len(c.Args) # 1 THEN Result(<<>>, NewMissingArgsErr(c.NS))
    ELSE LET domainName == c.Args[1]
             fl == GetFlags(c, <<"ip-address">>, failAt)
         IN  IF fl.err # nil THEN Result(fl.log, fl.err)
             ELSE LET req == DomainCreateRequest(domainName, c.Flags["ip-address"])
                      d == Invoke(ds, 1, "Create", <<req>>)
                      l == Append(fl.log, CallEv("Create", <<req>>, d))
                  IN  IF d.err # nil THEN Result(l, d.err)
                      ELSE Display(l, <<d.val>>, dispErr)

\* Mutant: the first domain of the list is not displayed.
RunDomainListDropsFirst(c, failAt, ds, dispErr) ==
    LET domains == Invoke(ds, 1, "List", <<>>)
        l == <<CallEv("List", <<>>, domains)>>
    IN  IF domains.err # nil THEN Result(l, domains.err)
        ELSE Display(l, IF Len(domains.val) = 0 THEN <<>> ELSE Tail(domains.val), dispErr)

RunDomainList(c, failAt, ds, dispErr) ==
    LET domains == Invoke(ds, 1, "List", <<>>)
        l == <<CallEv("List", <<>>, domains)>>
    IN  IF domains.err # nil THEN Result(l, domains.err)
        ELSE Display(l, domains.val, dispErr)

\* Mutant: the error of Get is replaced by a new one.
RunDomainGetWrapsError(c, failAt, ds, dispErr) ==
    IF Len(c.Args) # 1 THEN Result(<<>>, NewMissingArgsErr(c.NS))
    ELSE LET id == c.Args[1]
         IN  IF Len(id) < 1 THEN Result(<<>>, InvalidInput("invalid domain name", <<>>))
             ELSE LET d == Invoke(ds, 1, "Get", <<id>>)
                      l == <<CallEv("Get", <<id>>, d)>>
                  IN  IF d.err # nil
                      THEN Result(l, Error("Service", "unable to get domain", <<>>))
                      ELSE Display(l, <<d.val>>, dispErr)

RunDomainGet(c, failAt, ds, dispErr) ==
    IF Len(c.Args) # 1 THEN Result(<<>>, NewMissingArgsErr(c.NS))
    ELSE LET id == c.Args[1]
         IN  IF Len(id) < 1 THEN Result(<<>>, InvalidInput("invalid domain name", <<>>))
             ELSE LET d == Invoke(ds, 1, "Get", <<id>>)
                      l == <<CallEv("Get", <<id>>, d)>>
                  IN  IF d.err # nil THEN Result(l, d.err)
                      ELSE Display(l, <<d.val>>, dispErr)

\* Mutant: the deleted name is displayed.
RunDomainDeleteDisplays(c, failAt, ds, dispErr) ==
    IF Len(c.Args) # 1 THEN Result(<<>>, NewMissingArgsErr(c.NS))
    ELSE LET name == c.Args[1]
         IN  IF Len(name) < 1 THEN Result(<<>>, InvalidInput("invalid domain name", <<>>))
             ELSE LET o == Invoke(ds, 1, "Delete", <<name>>)
                      l == <<CallEv("Delete", <<name>>, o)>>
                  IN  IF o.err # nil THEN Result(l, o.err)
                      ELSE Display(l, <<name>>, dispErr)

RunDomainDelete(c, failAt, ds, dispErr) ==
    IF Len(c.Args) # 1 THEN Result(<<>>, NewMissingArgsErr(c.NS))
    ELSE LET name == c.Args[1]
         IN  IF Len(name) < 1 THEN Result(<<>>, InvalidInput("invalid domain name", <<>>))
             ELSE LET o == Invoke(ds, 1, "Delete", <<name>>)
                  IN  Result(<<CallEv("Delete", <<name>>, o)>>, o.err)

RunRecordList(c, failAt, ds, dispErr) ==
    IF Len(c.Args) # 1 THEN Result(<<>>, NewMissingArgsErr(c.NS))
    ELSE LET name == c.Args[1]
         IN  IF Len(name) < 1 THEN Result(<<>>, InvalidInput("domain name is missing", <<>>))
             ELSE LET list == Invoke(ds, 1, "Records", <<name>>)
                      l == <<CallEv("Records", <<name>>, list)>>
                  IN  IF list.err # nil THEN Result(l, list.err)
                      ELSE Display(l, list.val, dispErr)

RecordCreateFlags ==
    <<"record-type", "record-name", "record-data",
      "record-priority", "record-port", "record-weight">>

RecordUpdateFlags == <<"record-id">> \o RecordCreateFlags

DomainRecordEditRequest(c) ==
    [Type |-> c.Flags["record-type"], Name |-> c.Flags["record-name"],
     Data |-> c.Flags["record-data"], Priority |-> c.Flags["record-priority"],
     Port |-> c.Flags["record-port"], Weight |-> c.Flags["record-weight"]]

\* Mutant: the check looks at the record name.
MissingTypeChecksName(drcr) == Len(drcr.Name) = 0

MissingType(drcr) == Len(drcr.Type) = 0

RunRecordCreate(c, failAt, ds, dispErr) ==
    IF Len(c.Args) # 1 THEN Result(<<>>, NewMissingArgsErr(c.NS))
    ELSE LET name == c.Args[1]
             fl == GetFlags(c, RecordCreateFlags, failAt)
         IN  IF fl.err # nil THEN Result(fl.log, fl.err)
             ELSE LET drcr == DomainRecordEditRequest(c)
                  IN  IF MissingType(drcr)
                      THEN Result(fl.log, InvalidInput("record request is missing type", <<>>))
                      ELSE LET r == Invoke(ds, 1, "CreateRecord", <<name, drcr>>)
                               l == Append(fl.log, CallEv("CreateRecord", <<name, drcr>>, r))
                           IN  IF r.err # nil THEN Result(l, r.err)
                               ELSE Display(l, <<r.val>>, dispErr)

\* Mutant: only the domain name is required.
RecordDeleteArgsMissingNoIds(c) ==
    Len(c.Args) < 1

RecordDeleteArgsMissing(c) ==
    Len(c.Args) < 2 \/ Len(Tail(c.Args)) < 1

\* Mutant: a failed DeleteRecord is remembered and the loop goes on.
RECURSIVE DeleteLoopKeepsGoing(_, _, _, _, _, _)
DeleteLoopKeepsGoing(domainName, ids, i, k, ds, l) ==
    IF i > Len(ids)
    THEN Result(l, IF \E j \in 1..Len(l) : l[j].err # nil
                   THEN l[CHOOSE j \in 1..Len(l) : l[j].err # nil].err ELSE nil)
    ELSE LET id == Atoi(ids[i])
         IN  IF ~id.ok THEN Result(l, InvalidInput("invalid record id", ids[i]))
             ELSE LET o == Invoke(ds, k, "DeleteRecord", <<domainName, id.v>>)
                      l2 == Append(l, CallEv("DeleteRecord", <<domainName, id.v>>, o))
                  IN  DeleteLoopKeepsGoing(domainName, ids, i + 1, k + 1, ds, l2)

\* Mutant: every id is parsed before the first DeleteRecord call.
RECURSIVE DeleteLoopValidatesFirst(_, _, _, _, _, _)
DeleteLoopValidatesFirst(domainName, ids, i, k, ds, l) ==
    IF \E j \in i..Len(ids) : ~Atoi(ids[j]).ok
    THEN Result(l, InvalidInput("invalid record id",
                                ids[CHOOSE j \in i..Len(ids) :
                                      /\ ~Atoi(ids[j]).ok
                                      /\ \A h \in i..(j - 1) : Atoi(ids[h]).ok]))
    ELSE IF i > Len(ids) THEN Result(l, nil)
    ELSE LET id == Atoi(ids[i])
             o == Invoke(ds, k, "DeleteRecord", <<domainName, id.v>>)
             l2 == Append(l, CallEv("DeleteRecord", <<domainName, id.v>>, o))
         IN  IF o.err # nil THEN Result(l2, o.err)
             ELSE DeleteLoopValidatesFirst(domainName, ids, i + 1, k + 1, ds, l2)

\* The loop over ids from position i on; k - 1 DeleteRecord calls were made so far.
RECURSIVE DeleteLoop(_, _, _, _, _, _)
DeleteLoop(domainName, ids, i, k, ds, l) ==
    IF i > Len(ids) THEN Result(l, nil)
    ELSE LET id == Atoi(ids[i])
         IN  IF ~id.ok THEN Result(l, InvalidInput("invalid record id", ids[i]))
             ELSE LET o == Invoke(ds, k, "DeleteRecord", <<domainName, id.v>>)
                      l2 == Append(l, CallEv("DeleteRecord", <<domainName, id.v>>, o))
                  IN  IF o.err # nil THEN Result(l2, o.err)
                      ELSE DeleteLoop(domainName, ids, i + 1, k + 1, ds, l2)

RunRecordDelete(c, failAt, ds, dispErr) ==
    IF RecordDeleteArgsMissing(c) THEN Result(<<>>, NewMissingArgsErr(c.NS))
    ELSE DeleteLoop(c.Args[1], Tail(c.Args), 1, 1, ds, <<>>)

RunRecordUpdate(c, failAt, ds, dispErr) ==
    IF Len(c.Args) # 1 THEN Result(<<>>, NewMissingArgsErr(c.NS))
    ELSE LET domainName == c.Args[1]
             fl == GetFlags(c, RecordUpdateFlags, failAt)
         IN  IF fl.err # nil THEN Result(fl.log, fl.err)
             ELSE LET recordID == c.Flags["record-id"]
                      drcr == DomainRecordEditRequest(c)
                      r == Invoke(ds, 1, "EditRecord", <<domainName, recordID, drcr>>)
                      l == Append(fl.log,
                                  CallEv("EditRecord", <<domainName, recordID, drcr>>, r))
                  IN  IF r.err # nil THEN Result(l, r.err)
                      ELSE Display(l, <<r.val>>, dispErr)

---------------------------------------------------------------------------
(* RegionsService mock *)

\* mock.Arguments.Error(i): the configured error, nil when nil was configured.
ArgumentsError(ret, i) == IF ret[i].kind = "nil" THEN nil ELSE ret[i].v

\* Mutant: a configured function is not called.
ListIgnoresFunc(ret) ==
    LET r0 == IF ret[1].kind = "value" THEN ret[1].v ELSE <<>>
        r1 == IF ret[2].kind = "func" THEN ret[2].v
              ELSE ArgumentsError(ret, 2)
    IN  <<r0, r1>>

\* ret is what _m.Called() returns: the configured return values, each either
\* nil, a value, or a function (v is then what calling the function yields).
List(ret) ==
    LET r0 == IF ret[1].kind = "func" THEN ret[1].v
              ELSE IF ret[1].kind # "nil" THEN ret[1].v ELSE <<>>
        r1 == IF ret[2].kind = "func" THEN ret[2].v
              ELSE ArgumentsError(ret, 2)
    IN  <<r0, r1>>

---------------------------------------------------------------------------
(* Command lines and environment answers *)

Commands ==
    {"domain create", "domain list", "domain get", "domain delete",
     "records list", "records create", "records delete", "records update"}

MockCommand == "RegionsService.List"

DefaultFlags ==
    [k \in {"ip-address", "record-type", "record-name", "record-data"} |-> <<>>] @@
    [k \in {"record-id", "record-priority", "record-port", "record-weight"} |-> 0]

RecordFlagValues ==
    {[DefaultFlags EXCEPT !["record-type"] = t, !["record-name"] = n,
                          !["record-data"] = d, !["record-priority"] = p,
                          !["record-port"] = po, !["record-weight"] = w] :
        t \in {<<>>, <<"A">>}, n \in {<<>>, <<"w">>}, d \in {<<>>, <<"d">>},
        p \in {0, 10}, po \in {0, 80}, w \in {0, 5}}

FlagsOf(cm) ==
    CASE cm = "domain create" ->
           {[DefaultFlags EXCEPT !["ip-address"] = ip] : ip \in ShortStrings}
      [] cm = "records create" -> RecordFlagValues
      [] cm = "records update" ->
           {[f EXCEPT !["record-id"] = id] : f \in RecordFlagValues, id \in {0, 9}}
      [] OTHER -> {DefaultFlags}

ArgsOf(cm) ==
    CASE cm = "records delete" ->
           SeqsUpTo(ShortStrings, 1) \cup
           {<<n>> \o ids : n \in ShortStrings, ids \in SeqsUpTo(Strings, MaxIds) \ {<<>>}}
      [] cm = MockCommand -> {<<>>}
      [] OTHER -> SeqsUpTo(ShortStrings, MaxFixedArgs)

Region(name, slug) == [Name |-> name, Slug |-> slug]

RegionValues == {Region("New York 1", "nyc1"), Region("London 1", "lon1")}

MockReturns ==
    {<<a, b>> :
        a \in {[kind |-> "nil", v |-> <<>>]} \cup
              {[kind |-> k, v |-> rs] : k \in {"value", "func"},
                                        rs \in SeqsUpTo(RegionValues, MaxList)},
        b \in {[kind |-> "nil", v |-> nil]} \cup
              {[kind |-> "value", v |-> e] : e \in ServiceErrors} \cup
              {[kind |-> "func", v |-> e] : e \in ServiceErrors \cup {nil}}}

NoMock == <<[kind |-> "nil", v |-> <<>>], [kind |-> "nil", v |-> nil]>>

DomainValues == {Domain(<<"7">>, <<"7">>), Domain(<<"-">>, <<>>)}

DomainRecord(id, type, name, data, priority, port, weight) ==
    [ID |-> id, Type |-> type, Name |-> name, Data |-> data,
     Priority |-> priority, Port |-> port, Weight |-> weight]

RecordValues ==
    {DomainRecord(1, <<"A">>, <<"w">>, <<"d">>, 0, 0, 0),
     DomainRecord(2, <<"M">>, <<>>, <<"m">>, 10, 0, 0)}

Ok(v) == [err |-> nil, val |-> v]

Fail(e) == [err |-> e, val |-> <<>>]

Failures == {Fail(e) : e \in ServiceErrors}

\* What the service may answer to the one call of each command.
AnswersOf(cm) ==
    Failures \cup
    CASE cm \in {"domain create", "domain get"} -> {Ok(d) : d \in DomainValues}
      [] cm = "domain list" -> {Ok(ds) : ds \in SeqsUpTo(DomainValues, MaxList)}
      [] cm = "records list" -> {Ok(rs) : rs \in SeqsUpTo(RecordValues, MaxList)}
      [] cm \in {"records create", "records update"} -> {Ok(r) : r \in RecordValues}
      [] OTHER -> {Ok(<<>>)}

DisplayAnswers == {nil} \cup DisplayErrors

CmdConfig == [NS |-> cmd, Args |-> args, Flags |-> flags]

---------------------------------------------------------------------------
(* One command per run *)

Init ==
    /\ cmd \in Commands \cup {MockCommand}
    /\ args \in ArgsOf(cmd)
    /\ flags \in FlagsOf(cmd)
    /\ mock \in IF cmd = MockCommand THEN MockReturns ELSE {NoMock}
    /\ pc = "start"
    /\ log = <<>>
    /\ err = nil
    /\ out = <<>>
    /\ store = {}
    /\ supplied = {}

Finish(r) ==
    /\ pc' = "done"
    /\ log' = r.log
    /\ err' = r.err
    /\ UNCHANGED <<cmd, args, flags, mock, out, store, supplied>>

DomainCreate ==
    /\ pc = "start" /\ cmd = "domain create"
    /\ \E failAt \in 0..1, o \in AnswersOf(cmd), dispErr \in DisplayAnswers :
         Finish(RunDomainCreate(CmdConfig, failAt, Canned(<<o>>), dispErr))

DomainList ==
    /\ pc = "start" /\ cmd = "domain list"
    /\ \E o \in AnswersOf(cmd), dispErr \in DisplayAnswers :
         Finish(RunDomainList(CmdConfig, 0, Canned(<<o>>), dispErr))

DomainGet ==
    /\ pc = "start" /\ cmd = "domain get"
    /\ \E o \in AnswersOf(cmd), dispErr \in DisplayAnswers :
         Finish(RunDomainGet(CmdConfig, 0, Canned(<<o>>), dispErr))

DomainDelete ==
    /\ pc = "start" /\ cmd = "domain delete"
    /\ \E o \in AnswersOf(cmd), dispErr \in DisplayAnswers :
         Finish(RunDomainDelete(CmdConfig, 0, Canned(<<o>>), dispErr))

RecordList ==
    /\ pc = "start" /\ cmd = "records list"
    /\ \E o \in AnswersOf(cmd), dispErr \in DisplayAnswers :
         Finish(RunRecordList(CmdConfig, 0, Canned(<<o>>), dispErr))

RecordCreate ==
    /\ pc = "start" /\ cmd = "records create"
    /\ \E failAt \in 0..Len(RecordCreateFlags), o \in AnswersOf(cmd),
          dispErr \in DisplayAnswers :
         Finish(RunRecordCreate(CmdConfig, failAt, Canned(<<o>>), dispErr))

RecordDelete ==
    /\ pc = "start" /\ cmd = "records delete"
    /\ \E script \in [1..MaxIds -> AnswersOf(cmd)], dispErr \in DisplayAnswers :
         Finish(RunRecordDelete(CmdConfig, 0, Canned(script), dispErr))

RecordUpdate ==
    /\ pc = "start" /\ cmd = "records update"
    /\ \E failAt \in 0..Len(RecordUpdateFlags), o \in AnswersOf(cmd),
          dispErr \in DisplayAnswers :
         Finish(RunRecordUpdate(CmdConfig, failAt, Canned(<<o>>), dispErr))

RegionsList ==
    /\ pc = "start" /\ cmd = MockCommand
    /\ pc' = "done"
    /\ out' = List(mock)
    /\ log' = <<CallEv("RegionsService.List", <<>>, [err |-> out'[2], val |-> out'[1]])>>
    /\ UNCHANGED <<cmd, args, flags, mock, err, store, supplied>>

Next ==
    \/ DomainCreate
    \/ DomainList
    \/ DomainGet
    \/ DomainDelete
    \/ RecordList
    \/ RecordCreate
    \/ RecordDelete
    \/ RecordUpdate
    \/ RegionsList

Spec == Init /\ [][Next]_vars

---------------------------------------------------------------------------
(* Successive commands against a DomainsService that stores what Create receives *)

RECURSIVE StoreAfter(_, _)
StoreAfter(st, l) ==
    IF Len(l) = 0 THEN st
    ELSE LET e == Head(l)
             st2 == IF e.op = "Create" /\ e.err = nil
                    THEN {d \in st : d.Name # e.val.Name} \cup {e.val}
                    ELSE st
         IN  StoreAfter(st2, Tail(l))

Stored(l) == \E i \in 1..Len(l) : l[i].op = "Create" /\ l[i].err = nil

RoundTripCommands == {"domain create", "domain get"}

RoundTripArgs == SeqsUpTo(ShortStrings, 1)

InitRT ==
    /\ cmd \in RoundTripCommands
    /\ args \in RoundTripArgs
    /\ flags \in FlagsOf(cmd)
    /\ mock = NoMock
    /\ pc = "start"
    /\ log = <<>>
    /\ err = nil
    /\ out = <<>>
    /\ store = {}
    /\ supplied = {}

StoredDomainCreate ==
    /\ pc = "start" /\ cmd = "domain create"
    /\ \E failAt \in 0..1, dispErr \in DisplayAnswers :
         LET r == RunDomainCreate(CmdConfig, failAt, Storing(store), dispErr)
         IN  /\ pc' = "done"
             /\ log' = r.log
             /\ err' = r.err
             /\ store' = StoreAfter(store, r.log)
             /\ supplied' = IF Stored(r.log)
                            THEN {d \in supplied : d.Name # args[1]} \cup
                                 {Domain(args[1], flags["ip-address"])}
                            ELSE supplied
    /\ UNCHANGED <<cmd, args, flags, mock, out>>

StoredDomainGet ==
    /\ pc = "start" /\ cmd = "domain get"
    /\ \E dispErr \in DisplayAnswers :
         LET r == RunDomainGet(CmdConfig, 0, Storing(store), dispErr)
         IN  /\ pc' = "done"
             /\ log' = r.log
             /\ err' = r.err
    /\ UNCHANGED <<cmd, args, flags, mock, out, store, supplied>>

NextCommand ==
    /\ pc = "done"
    /\ pc' = "start"
    /\ cmd' \in RoundTripCommands
    /\ args' \in RoundTripArgs
    /\ flags' \in FlagsOf(cmd')
    /\ log' = <<>>
    /\ err' = nil
    /\ UNCHANGED <<mock, out, store, supplied>>

NextRT ==
    \/ StoredDomainCreate
    \/ StoredDomainGet
    \/ NextCommand

SpecRT == InitRT /\ [][NextRT]_vars

---------------------------------------------------------------------------
(* Properties *)

Calls == {i \in 1..Len(log) : log[i].svc}

Displays == {i \in 1..Len(log) : log[i].op = "Display"}

FlagReads == {i \in 1..Len(log) : log[i].op = "Flag"}

Ran(cm) == pc = "done" /\ cmd = cm

\* Positional arguments each command requires, from its usage line:
\* "create <domain>", "list", "delete <domain> <record id...>".
Required(cm) ==
    CASE cm = "domain list" -> 0
      [] cm = "records delete" -> 2
      [] OTHER -> 1

DeleteCommands == {"domain delete", "records delete"}

ListCommands == {"domain list", "records list"}

\* C1: a handler invoked with fewer positional arguments than its command
\* requires returns the MissingArguments error, and no service operation is
\* called during that invocation.
C1_MissingArguments ==
    (pc = "done" /\ cmd \in Commands /\ Len(args) < Required(cmd)) =>
        /\ err = NewMissingArgsErr(cmd)
        /\ Calls = {}

C1_Witness ==
    /\ Ran("records delete") /\ Len(args) = 1
    /\ err.kind = "MissingArguments" /\ log = <<>>

\* C2: records delete stops at the first id whose DeleteRecord fails: the
\* failing call is for the id at its position, it is the last call made (the
\* later ids are not attempted, the failing id is not retried), and the handler
\* returns exactly the error of that call.
C2_StopsAtFirstFailure ==
    Ran("records delete") =>
        \A i \in Calls :
            log[i].err # nil =>
                /\ err = log[i].err
                /\ Len(log) = i
                /\ log[i].op = "DeleteRecord"
                /\ log[i].arg = <<args[1], Atoi(args[i + 1]).v>>
                /\ \A j \in 1..(i - 1) : log[j].err = nil

C2_Witness ==
    /\ Ran("records delete") /\ Len(args) = 3
    /\ Atoi(args[2]).ok /\ Atoi(args[3]).ok
    /\ Len(log) = 1 /\ log[1].err \in ServiceErrors /\ err = log[1].err

\* C3: records create, given its one positional argument and flags the flag
\* store could read, fails with InvalidInput whenever the record type is
\* empty, whatever the domain name and the other fields are; CreateRecord is
\* then not called and nothing is displayed.
C3_EmptyTypeRejected ==
    (/\ Ran("records create") /\ Len(args) = 1 /\ err.kind # "Flag"
     /\ Len(flags["record-type"]) = 0) =>
        /\ err.kind = "InvalidInput"
        /\ Calls = {}
        /\ Displays = {}

C3_Witness ==
    /\ Ran("records create") /\ Len(args) = 1
    /\ flags["record-type"] = <<>> /\ flags["record-name"] # <<>>
    /\ flags["record-data"] # <<>> /\ flags["record-port"] # 0
    /\ err = InvalidInput("record request is missing type", <<>>)
    /\ Len(log) = Len(RecordCreateFlags)

\* C4: when the List / Records call of a list command returns N entities
\* without error, Display is invoked, once, with exactly that sequence: the
\* same entities in the same order, N = 0 included.
C4_ListDisplayedAsReturned ==
    (pc = "done" /\ cmd \in ListCommands) =>
        \A i \in Calls :
            log[i].err = nil =>
                /\ Displays = {i + 1}
                /\ log[i + 1].arg = log[i].val
                /\ Len(log[i + 1].arg) = Len(log[i].val)

C4_Witness ==
    /\ pc = "done" /\ cmd \in ListCommands
    /\ Len(log) = 2 /\ log[1].err = nil
    /\ Len(log[1].val) = 2 /\ log[1].val[1] # log[1].val[2]
    /\ log[2].op = "Display" /\ log[2].arg = log[1].val

\* C5: when a service operation returns an error the handler returns that very
\* error, the failed call is the last thing it did (no Display, no further
\* service call, no retry).
C5_ErrorsPropagateUnchanged ==
    (pc = "done" /\ cmd \in Commands) =>
        \A i \in Calls :
            log[i].err # nil =>
                /\ err = log[i].err
                /\ i = Len(log)
                /\ Displays = {}
                /\ \A j \in Calls \ {i} : log[j].err = nil

C5_Witness ==
    /\ Ran("records update") /\ Len(log) = Len(RecordUpdateFlags) + 1
    /\ log[Len(log)].op = "EditRecord"
    /\ log[Len(log)].err \in ServiceErrors /\ err = log[Len(log)].err

\* The domain name a service call was given (Create carries it in its request).
DomainNameOf(e) == IF e.op = "Create" THEN e.arg[1].Name ELSE e.arg[1]

\* C6: no handler passes an empty domain name to Create, Get, Delete, Records,
\* CreateRecord, EditRecord or DeleteRecord, nor a request with an empty type
\* to CreateRecord or EditRecord: an empty required string makes the handler
\* fail with InvalidInput before the remote call.
C6_RequiredStringsNonEmpty ==
    (pc = "done" /\ cmd \in Commands) =>
        /\ \A i \in Calls :
              /\ log[i].op # "List" => Len(DomainNameOf(log[i])) > 0
              /\ log[i].op = "CreateRecord" => Len(log[i].arg[2].Type) > 0
              /\ log[i].op = "EditRecord" => Len(log[i].arg[3].Type) > 0
        /\ (/\ Len(args) >= Required(cmd) /\ Required(cmd) >= 1
            /\ Len(args[1]) = 0 /\ err.kind \notin {"MissingArguments", "Flag"})
              => (err.kind = "InvalidInput" /\ Calls = {})

\* C7: against a service that stores what Create receives, domain get with a
\* name n that an earlier domain create stored with IP a displays the domain
\* (n, a): Get is queried with exactly n and its answer is displayed as is.
C7_CreateThenGet ==
    (Ran("domain get") /\ Len(args) = 1) =>
        \A d \in supplied :
            d.Name = args[1] =>
                /\ Len(log) = 2
                /\ log[1].op = "Get" /\ log[1].arg = <<args[1]>>
                /\ log[2].op = "Display" /\ log[2].arg = <<d>>

\* Order of the steps: flag reads, then service calls, then Display.
Rank(e) == IF e.op = "Flag" THEN 1 ELSE IF e.svc THEN 2 ELSE 3

\* What a handler has to hand to Display for the result val of its call.
Payload(cm, val) == IF cm \in ListCommands THEN val ELSE <<val>>

\* The request a command line asks for, field by field.
Requested(cm) ==
    LET req == [Type |-> flags["record-type"], Name |-> flags["record-name"],
                Data |-> flags["record-data"], Priority |-> flags["record-priority"],
                Port |-> flags["record-port"], Weight |-> flags["record-weight"]]
    IN  CASE cm = "domain create" ->
               <<[Name |-> args[1], IPAddress |-> flags["ip-address"]]>>
          [] cm = "records create" -> <<args[1], req>>
          [] cm = "records update" -> <<args[1], flags["record-id"], req>>
          [] cm = "domain list" -> <<>>
          [] OTHER -> <<args[1]>>

\* C8: every handler runs argument-count check, flag extraction, request
\* build, service call, display in that order: a rejected argument count ends
\* the run before anything else; flag reads precede service calls, which
\* precede Display; a successful run of a non-delete handler makes exactly one
\* service call, with the request built from the arguments and flags, and then
\* exactly one Display call whose payload is that call's result; Display only
\* ever follows a service call that succeeded; delete handlers never display.
C8_StepOrder ==
    (pc = "done" /\ cmd \in Commands) =>
        /\ err.kind = "MissingArguments" => log = <<>>
        /\ \A i, j \in 1..Len(log) : i < j => Rank(log[i]) <= Rank(log[j])
        /\ \A i \in Displays : i > 1 /\ log[i - 1].svc /\ log[i - 1].err = nil
        /\ cmd \in DeleteCommands => Displays = {}
        /\ (err = nil /\ cmd \notin DeleteCommands) =>
              /\ Cardinality(Calls) = 1
              /\ Cardinality(Displays) = 1
              /\ \A i \in Calls :
                    /\ log[i].arg = Requested(cmd)
                    /\ Displays = {i + 1}
                    /\ log[i + 1].arg = Payload(cmd, log[i].val)

C8_Witness ==
    /\ Ran("records create") /\ err = nil
    /\ Len(log) = Len(RecordCreateFlags) + 2
    /\ log[Len(log) - 1].op = "CreateRecord"
    /\ log[Len(log)].op = "Display"

\* C9: records delete with a domain d and ids: the DeleteRecord calls made are
\* a prefix of the ids in argument order, each with d and the integer value of
\* its id.  The prefix ends just before the first id that is no integer (the
\* handler returns an invalid-record-id error naming it, the earlier ids being
\* already deleted) or just after the first id whose call fails (that error is
\* returned); nil is returned only when every id was deleted successfully.
C9_DeletesArePrefix ==
    (Ran("records delete") /\ Len(args) >= 2) =>
        LET ids == Tail(args)
            n == Len(log)
        IN  /\ n <= Len(ids)
            /\ \A i \in 1..n :
                  /\ log[i].op = "DeleteRecord"
                  /\ Atoi(ids[i]).ok
                  /\ log[i].arg = <<args[1], Atoi(ids[i]).v>>
            /\ \A i \in 1..(n - 1) : log[i].err = nil
            /\ IF n >= 1 /\ log[n].err # nil
               THEN err = log[n].err
               ELSE IF n < Len(ids)
                    THEN /\ ~Atoi(ids[n + 1]).ok
                         /\ err = InvalidInput("invalid record id", ids[n + 1])
                    ELSE err = nil
            /\ err = nil => (n = Len(ids) /\ \A i \in 1..n : log[i].err = nil)

C9_Witness ==
    /\ Ran("records delete") /\ Len(args) = 3
    /\ args[2] = <<"-", "7">> /\ args[3] = <<"7", "-">>
    /\ Len(log) = 1 /\ log[1].arg = <<args[1], -7>> /\ log[1].err = nil
    /\ err = InvalidInput("invalid record id", <<"7", "-">>)

\* C10: the mock's List returns what was configured for it: first the
\* configured regions (what the configured function yields; the empty Regions
\* when nil was configured), unaltered and in order, second the configured
\* error (what the configured function yields; nil when nil was configured).
C10_MockReturnsConfigured ==
    Ran(MockCommand) =>
        /\ out[1] = (IF mock[1].kind = "nil" THEN <<>> ELSE mock[1].v)
        /\ out[2] = (IF mock[2].kind = "nil" THEN nil ELSE mock[2].v)
        /\ Len(out) = 2

C10_Witness ==
    /\ Ran(MockCommand) /\ mock[1].kind = "func" /\ mock[2].kind = "func"
    /\ Len(out[1]) = 2 /\ out[1][1] # out[1][2]
    /\ out[1] = mock[1].v
    /\ out[2] \in ServiceErrors

=============================================================================
